---- MODULE Spec2Model ----
(***************************************************************************)
(* Model of the TableUI component (sortable, resizable data table) and of  *)
(* the document-level pointer events that drive its column resizing.       *)
(* Every rendered table instance owns its React state (sortConfig,         *)
(* columnWidths, resizingColumn), its two refs (resizeStartX,              *)
(* resizeStartWidth) and its memoised sortedData; the document owns the     *)
(* registered mousemove/mouseup listeners and the body cursor.             *)
(* An action is one event handler together with the re-render and the      *)
(* effects React flushes for it.                                            *)
(***************************************************************************)
EXTENDS Integers, Sequences, FiniteSets, TLC

\* ---------------------------------------------------------------- bounds
\* startResizing calls per run, over all table instances
MaxDrags == 2

\* rows of an array handed to the sort engine taken alone
MaxRows == 4
MaxLines == 3
MaxKeys == 2
MaxCalls == 2
MaxInstruments == 3

\* ------------------------------------------------------ program constants
MinWidth == 50
defaultWidth == 200
FallbackWidth == 150
LF == 10
Comma == 44
Quote == 34
SliceEnd == 501

\* ------------------------------------------------------------ JS values
NULL == "<null>"

Undefined == [type |-> "undefined", num |-> 0, str |-> <<>>]
Num(n) == [type |-> "number", num |-> n, str |-> <<>>]
Str(s) == [type |-> "string", num |-> 0, str |-> s]

\* !x for x : string | null
Truthy(s) == s # NULL /\ s # ""

Max(a, b) == IF a >= b THEN a ELSE b

\* -------------------------------------------------------------- inputs
Tables == {"t1", "t2"}
Keys == {"", "k", "w"}
DownXs == {100, 400}
MoveXs == {-10000, 150}

\* a row is a JS object: its own properties in insertion order
Prop(k, v) == [key |-> k, value |-> v]
RowA == <<Prop("k", Num(1)), Prop("w", Num(7))>>
RowB == <<Prop("k", Num(1)), Prop("w", Num(3))>>
RowC == <<Prop("k", Num(2)), Prop("w", Num(5))>>
DataSets == {<< >>, <<RowC, RowA, RowB>>}

NoColumns == [given |-> FALSE, cols |-> << >>]
Explicit(cols) == [given |-> TRUE, cols |-> cols]
ColumnProps == {NoColumns, Explicit(<<[key |-> ""], [key |-> "w"]>>)}

NoSort == [key |-> NULL, direction |-> NULL]
EmptyMap == [k \in {} |-> 0]

\* inputs of the sort engine: rows { id, k } whose k is absent, a number or a
\* string ("9", "10" as code units)
SortValues == {Undefined, Num(1), Num(2), Str(<<57>>), Str(<<49, 48>>)}
SortRow(i, v) == <<Prop("id", Num(i)), Prop("k", v)>>
SortInputs ==
    UNION {{[i \in 1..n |-> SortRow(i, f[i])] : f \in [1..n -> SortValues]} : n \in 0..MaxRows}
Directives == {NoSort} \cup [key : {"k"}, direction : {"asc", "desc"}]

\* inputs of TableUI_Demo: bodies of /data/trade_data.csv, as code units.
\* The lines they are made of:  k,w   k ,w<CR>   "a,b",c   1,2   1   (empty)
\* <space><CR>   "x,y",z   7 , "q"<CR>   a,"b
SampleLines ==
    { <<107, 44, 119>>, <<32, 107, 32, 44, 119, 13>>, <<34, 97, 44, 98, 34, 44, 99>>,
      <<49, 44, 50>>, <<49>>, << >>, <<32, 13>>,
      <<34, 120, 44, 121, 34, 44, 122>>, <<55, 32, 44, 32, 34, 113, 34, 13>>,
      <<97, 44, 34, 98>> }

\* the lines joined by line feeds
RECURSIVE Join(_)
Join(ls) ==
    IF Len(ls) = 0 THEN << >>
    ELSE IF Len(ls) = 1 THEN ls[1]
    ELSE ls[1] \o <<LF>> \o Join(Tail(ls))

ShortTexts == {Join(ls) : ls \in UNION {[1..n -> SampleLines] : n \in 1..MaxLines}}

\* a file with the header id,v and n data lines 001,a 002,a ..., each line
\* ended by a line feed
LongText(n) ==
    [i \in 1..(5 + 6 * n) |->
        IF i <= 5 THEN <<105, 100, 44, 118, LF>>[i]
        ELSE LET line == ((i - 6) \div 6) + 1
                 off == (i - 6) % 6
             IN  CASE off = 0 -> 48 + (line \div 100)
                   [] off = 1 -> 48 + ((line \div 10) % 10)
                   [] off = 2 -> 48 + (line % 10)
                   [] off = 3 -> Comma
                   [] off = 4 -> 97
                   [] OTHER -> LF]

\* files around the row limit of the parser
LongTexts == {LongText(n) : n \in {SliceEnd - 2, SliceEnd - 1, SliceEnd, SliceEnd + 99}}

CsvTexts == ShortTexts \cup LongTexts

\* inputs of the column model: property names with their code units, rows
\* whose first record has up to MaxKeys of them, and the columns prop
KeyText ==
    ("" :> << >>) @@
    ("k" :> <<107>>) @@
    ("w" :> <<119>>) @@
    ("id" :> <<105, 100>>) @@
    ("orderId" :> <<111, 114, 100, 101, 114, 73, 100>>) @@
    ("clientId" :> <<99, 108, 105, 101, 110, 116, 73, 100>>) @@
    ("trade_date" :> <<116, 114, 97, 100, 101, 95, 100, 97, 116, 101>>) @@
    ("fee-paid" :> <<102, 101, 101, 45, 112, 97, 105, 100>>) @@
    ("PnL" :> <<80, 110, 76>>)

KeyNames == DOMAIN KeyText

KeyLists ==
    UNION {{f \in [1..n -> KeyNames] : \A i, j \in 1..n : f[i] = f[j] => i = j} : n \in 0..MaxKeys}

RecordOf(keys) == [i \in 1..Len(keys) |-> Prop(keys[i], Num(i))]

ColumnInputs ==
    {<< >>} \cup {<<RecordOf(ks)>> : ks \in KeyLists}
            \cup {<<RecordOf(ks), RecordOf(<<"k">>)>> : ks \in KeyLists}

\* DeriverseService: instances, calls of fetchTradesForAddress, what the engine answers
Instances == {"s1", "s2"}
CallIds == 1..MaxCalls
InitializeOutcomes == {"true", "false", "throws"}
ClientOutcomes == {"ok", "clientNotFound", "throws"}
Failures == {"none", "spotInfo", "spot", "perpInfo", "perp"}

\* an order as the engine returns it
EngineOrder(id) == [orderId |-> id, qty |-> 2, sum |-> id, time |-> id, clientId |-> 1]
\* bids followed by asks of instrument i; an instrument may have no perp orders
SpotBook(i) == <<EngineOrder(10 * i + 1), EngineOrder(10 * i + 2)>>
PerpBook(i) == IF i = 2 THEN << >> ELSE <<EngineOrder(10 * i + 5)>>

IdleCall == [pc |-> "idle", inst |-> NULL, count |-> 0, idx |-> 0, fails |-> << >>,
             spotOrders |-> << >>, perpOrders |-> << >>, outcome |-> "none"]

VARIABLES
    mounted,            \* the table instances currently rendered
    data,               \* props.data of each instance
    columns,            \* props.columns of each instance
    sortConfig,         \* useState: NoSort or [key, direction]
    columnWidths,       \* useState: column key -> width
    resizingColumn,     \* useState: NULL or the dragged column key
    resizeStartX,       \* useRef
    resizeStartWidth,   \* useRef
    sortedData,         \* useMemo over (data, sortConfig)
    listeners,          \* document mousemove/mouseup listener pairs
    cursor,             \* document.body.style.cursor
    lastX,              \* history: pointer position the instance's listener saw last
                        \*   since the latest startResizing ({} when none)
    replaced,           \* history: the latest startResizing found a session active
    prevSort,           \* history: sortConfig before the latest handleSort
    drags,              \* history: number of startResizing calls
    noted,              \* history: "resized-then-rows" once new rows with the same
                        \*   column keys arrived after a resize, "unmounted-in-drag"
                        \*   when the instance was removed with a session open
    sortPhase,          \* the sort engine taken alone: "idle", "input" or "sorted"
    sortInput,          \*   the array handed to sortedData
    sortDirective,      \*   the directive of the latest computation
    sortOutput,         \*   the array sortedData returned
    csvText,            \* TableUI_Demo: the body served for /data/trade_data.csv
    fetchPhase,         \*   where fetchData stands: "idle", "fetching", "reading",
                        \*   "parsed" (try block left normally) or "failed" (catch ran)
    demoData,           \*   useState data
    loading,            \*   useState loading
    error,              \*   useState error: NULL or the message
    colPhase,           \* the column model taken alone: "idle", "input" or "derived"
    colData,            \*   props.data
    colProp,            \*   props.columns
    colColumns,         \*   the tableColumns computed for them
    isServiceAvailable, \* DeriverseService.isServiceAvailable (static)
    engine,             \*   this.engine of each instance: NULL, "created" or "initialized"
    calls               \*   each call of fetchTradesForAddress: where it stands (pc),
                        \*   its instance, the instruments it saw (count), the one it is
                        \*   at (idx), which query failed per instrument (fails), its
                        \*   arrays, and how it settled (outcome)

tableVars == <<mounted, data, columns, sortConfig, columnWidths, resizingColumn,
               resizeStartX, resizeStartWidth, sortedData, listeners, cursor,
               lastX, replaced, prevSort, drags, noted>>

sortVars == <<sortPhase, sortInput, sortDirective, sortOutput>>

demoVars == <<csvText, fetchPhase, demoData, loading, error>>

colVars == <<colPhase, colData, colProp, colColumns>>

svcVars == <<isServiceAvailable, engine, calls>>

vars == <<tableVars, sortVars, demoVars, colVars, svcVars>>

\* ------------------------------------------------------- pure functions

\* row[key]: the value of an own property, undefined when there is none
Get(row, k) ==
    IF \E i \in 1..Len(row) : row[i].key = k
    THEN row[CHOOSE i \in 1..Len(row) : row[i].key = k].value
    ELSE Undefined

\* Object.keys(row) for keys that are not array indices: insertion order
ObjectKeys(row) == [i \in 1..Len(row) |-> row[i].key]

\* JS numbers that are NaN carry nan = TRUE
NaN == [nan |-> TRUE, n |-> 0]
Finite(n) == [nan |-> FALSE, n |-> n]

IsDigit(c) == c \in 48..57
IsSpace(c) == c \in {9, 10, 11, 12, 13, 32}

RECURSIVE TrimLeft(_)
TrimLeft(s) == IF s # << >> /\ IsSpace(Head(s)) THEN TrimLeft(Tail(s)) ELSE s

RECURSIVE TrimRight(_)
TrimRight(s) ==
    IF s # << >> /\ IsSpace(s[Len(s)]) THEN TrimRight(SubSeq(s, 1, Len(s) - 1)) ELSE s

RECURSIVE DigitsValue(_)
DigitsValue(s) ==
    IF s = << >> THEN 0 ELSE 10 * DigitsValue(SubSeq(s, 1, Len(s) - 1)) + (s[Len(s)] - 48)

\* ToNumber on strings of spaces, decimal digits and other characters
StringToNumber(s) ==
    LET t == TrimRight(TrimLeft(s))
    IN  IF t = << >> THEN Finite(0)
        ELSE IF \A i \in 1..Len(t) : IsDigit(t[i]) THEN Finite(DigitsValue(t))
        ELSE NaN

ToNumber(v) ==
    IF v.type = "number" THEN Finite(v.num)
    ELSE IF v.type = "string" THEN StringToNumber(v.str)
    ELSE NaN

\* lexicographic order on code units
RECURSIVE StrLess(_, _)
StrLess(s, t) ==
    IF t = << >> THEN FALSE
    ELSE IF s = << >> THEN TRUE
    ELSE IF Head(s) < Head(t) THEN TRUE
    ELSE IF Head(s) > Head(t) THEN FALSE
    ELSE StrLess(Tail(s), Tail(t))

\* a < b  (abstract relational comparison; undefined result is false)
JSLess(a, b) ==
    IF a.type = "string" /\ b.type = "string" THEN StrLess(a.str, b.str)
    ELSE LET na == ToNumber(a)
             nb == ToNumber(b)
         IN  IF na.nan \/ nb.nan THEN FALSE ELSE na.n < nb.n

\* the comparator handed to Array.prototype.sort
Comparator(a, b, cfg) ==
    LET aValue == Get(a, cfg.key)
        bValue == Get(b, cfg.key)
    IN  IF JSLess(aValue, bValue) THEN (IF cfg.direction = "asc" THEN -1 ELSE 1)
        ELSE IF JSLess(bValue, aValue) THEN (IF cfg.direction = "asc" THEN 1 ELSE -1)
        ELSE 0

Reverse(s) == [i \in 1..Len(s) |-> s[Len(s) + 1 - i]]

\* Array.prototype.sort for short arrays: the leading run is found (a strictly
\* descending run is reversed), then the rest is inserted by binary search.
RECURSIVE RunEnd(_, _, _, _)
RunEnd(s, idx, isDescending, cfg) ==
    IF idx > Len(s) THEN idx - 1
    ELSE LET order == Comparator(s[idx], s[idx - 1], cfg)
         IN  IF isDescending
             THEN (IF order >= 0 THEN idx - 1 ELSE RunEnd(s, idx + 1, isDescending, cfg))
             ELSE (IF order < 0 THEN idx - 1 ELSE RunEnd(s, idx + 1, isDescending, cfg))

RECURSIVE BinarySearch(_, _, _, _, _)
BinarySearch(s, pivot, left, right, cfg) ==
    IF left >= right THEN left
    ELSE LET mid == left + ((right - left) \div 2)
         IN  IF Comparator(pivot, s[mid], cfg) < 0
             THEN BinarySearch(s, pivot, left, mid, cfg)
             ELSE BinarySearch(s, pivot, mid + 1, right, cfg)

RECURSIVE BinaryInsertionSort(_, _, _)
BinaryInsertionSort(s, start, cfg) ==
    IF start > Len(s) THEN s
    ELSE LET pivot == s[start]
             pos == BinarySearch(s, pivot, 1, start, cfg)
             moved == SubSeq(s, 1, pos - 1) \o <<pivot>> \o SubSeq(s, pos, start - 1)
                         \o SubSeq(s, start + 1, Len(s))
         IN  BinaryInsertionSort(moved, start + 1, cfg)

ArraySort(s, cfg) ==
    IF Len(s) < 2 THEN s
    ELSE LET isDescending == Comparator(s[2], s[1], cfg) < 0
             runEnd == RunEnd(s, 3, isDescending, cfg)
             run == SubSeq(s, 1, runEnd)
             prepared == (IF isDescending THEN Reverse(run) ELSE run)
                             \o SubSeq(s, runEnd + 1, Len(s))
         IN  BinaryInsertionSort(prepared, runEnd + 1, cfg)

\* the comparator is a consistent comparator for the rows of s: over the key
\* values that occur, "returns 0" is an equivalence and "returns a negative
\* number" a transitive relation whose converse is "returns a positive number"
ConsistentComparator(s, cfg) ==
    LET V == {Get(s[i], cfg.key) : i \in 1..Len(s)}
        Sign == {<<p[1], p[2], IF JSLess(p[1], p[2]) THEN -1
                               ELSE IF JSLess(p[2], p[1]) THEN 1 ELSE 0>> : p \in V \X V}
        Zero == {<<q[1], q[2]>> : q \in {q \in Sign : q[3] = 0}}
        Neg == {<<q[1], q[2]>> : q \in {q \in Sign : q[3] = -1}}
    IN  /\ \A p \in Neg : <<p[2], p[1]>> \notin Neg
        /\ \A p, q \in Zero : p[2] = q[1] => <<p[1], q[2]>> \in Zero
        /\ \A p, q \in Neg : p[2] = q[1] => <<p[1], q[2]>> \in Neg

Reorderings(s) ==
    LET n == Len(s)
        Bijections == {f \in [1..n -> 1..n] : \A i, j \in 1..n : f[i] = f[j] => i = j}
    IN  {[i \in 1..n |-> s[f[i]]] : f \in Bijections}

\* what Array.prototype.sort may leave in the array: the stable order for a
\* consistent comparator, an implementation-defined order of the same
\* elements otherwise
ArraySortOutcomes(s, cfg) ==
    IF ConsistentComparator(s, cfg) THEN {ArraySort(s, cfg)} ELSE Reorderings(s)

\* sortedData falling back to a sort on column "k" when there is no directive
SortedData_DefaultSort(d, cfg) ==
    LET used == IF cfg = NoSort THEN [key |-> "k", direction |-> "asc"] ELSE cfg
    IN  {[data |-> d, sortedData |-> out] : out \in ArraySortOutcomes(d, used)}

\* sortedData sorting data itself: data.sort(..) without the copy [...data]
SortedData_InPlace(d, cfg) ==
    IF cfg = NoSort THEN {[data |-> d, sortedData |-> d]}
    ELSE {[data |-> out, sortedData |-> out] : out \in ArraySortOutcomes(d, cfg)}

\* useMemo(() => { if (!sortConfig) return data; return [...data].sort(..) }):
\* the array data holds afterwards and the array returned
SortedData(d, cfg) ==
    IF cfg = NoSort THEN {[data |-> d, sortedData |-> d]}
    ELSE {[data |-> d, sortedData |-> out] : out \in ArraySortOutcomes(d, cfg)}

\* String.prototype.toUpperCase for one code unit
ToUpperCase(c) == IF c \in 97..122 THEN c - 32 ELSE c

\* str.replace(regex, to): every code unit c in the class replaced by to[c]
ReplaceEach(str, class, to) ==
    LET RECURSIVE From(_)
        From(i) ==
            IF i > Len(str) THEN << >>
            ELSE (IF str[i] \in class THEN to[str[i]] ELSE <<str[i]>>) \o From(i + 1)
    IN  From(1)

\* toTitleCase that replaces underscores only
toTitleCase_UnderscoreOnly(str) ==
    LET SpaceBefore == [c \in 65..90 |-> <<32, c>>]
        Space == [c \in {95, 45} |-> <<32>>]
        result == ReplaceEach(ReplaceEach(str, 65..90, SpaceBefore), {95}, Space)
    IN  IF result = << >> THEN << >>
        ELSE <<ToUpperCase(result[1])>> \o SubSeq(result, 2, Len(result))

\* toTitleCase that lowercases what follows the first character
toTitleCase_LowercasesRest(str) ==
    LET SpaceBefore == [c \in 65..90 |-> <<32, c>>]
        Space == [c \in {95, 45} |-> <<32>>]
        result == ReplaceEach(ReplaceEach(str, 65..90, SpaceBefore), {95, 45}, Space)
    IN  IF result = << >> THEN << >>
        ELSE <<ToUpperCase(result[1])>> \o
             [i \in 1..(Len(result) - 1) |->
                 IF result[i + 1] \in 65..90 THEN result[i + 1] + 32 ELSE result[i + 1]]

\* str.replace(/([A-Z])/g, " $1").replace(/[_-]/g, " "), then
\* result.charAt(0).toUpperCase() + result.slice(1)
toTitleCase(str) ==
    LET SpaceBefore == [c \in 65..90 |-> <<32, c>>]
        Space == [c \in {95, 45} |-> <<32>>]
        result == ReplaceEach(ReplaceEach(str, 65..90, SpaceBefore), {95, 45}, Space)
    IN  IF result = << >> THEN << >>
        ELSE <<ToUpperCase(result[1])>> \o SubSeq(result, 2, Len(result))

\* tableColumns giving a placeholder column when there are no rows
TableColumns_PlaceholderColumn(d, c) ==
    IF c.given THEN c.cols
    ELSE IF Len(d) = 0 THEN <<[key |-> "", header |-> << >>]>>
    ELSE [i \in 1..Len(d[1]) |->
             [key |-> ObjectKeys(d[1])[i], header |-> toTitleCase(KeyText[ObjectKeys(d[1])[i]])]]

\* useMemo: the explicit columns, or one column per key of the first row
TableColumns(d, c) ==
    IF c.given THEN c.cols
    ELSE IF Len(d) = 0 THEN << >>
    ELSE [i \in 1..Len(d[1]) |->
             [key |-> ObjectKeys(d[1])[i], header |-> toTitleCase(KeyText[ObjectKeys(d[1])[i]])]]

ColumnKeys(d, c) == {TableColumns(d, c)[i].key : i \in 1..Len(TableColumns(d, c))}

\* the width effect without the test for an empty map
InitializeWidths_Always(cols, widths) ==
    IF Len(cols) > 0
    THEN [k \in {cols[i].key : i \in 1..Len(cols)} |-> defaultWidth]
    ELSE widths

\* the width effect: runs when tableColumns changes
InitializeWidths(cols, widths) ==
    IF Len(cols) > 0 /\ DOMAIN widths = {}
    THEN [k \in {cols[i].key : i \in 1..Len(cols)} |-> defaultWidth]
    ELSE widths

\* handleSort with a two-state toggle: the directive never returns to none
NextSortConfig_Toggle(current, key) ==
    IF current.key = key
    THEN [key |-> key, direction |-> IF current.direction = "asc" THEN "desc" ELSE "asc"]
    ELSE [key |-> key, direction |-> "asc"]

\* handleSort carrying the direction over to a newly activated column
NextSortConfig_KeepsDirection(current, key) ==
    IF current.key = key
    THEN (IF current.direction = "asc" THEN [key |-> key, direction |-> "desc"] ELSE NoSort)
    ELSE [key |-> key, direction |-> IF current.direction = "desc" THEN "desc" ELSE "asc"]

\* handleSort's state updater
NextSortConfig(current, key) ==
    IF current.key = key
    THEN (IF current.direction = "asc" THEN [key |-> key, direction |-> "desc"] ELSE NoSort)
    ELSE [key |-> key, direction |-> "asc"]

\* startResizing taking 150 as the baseline whatever the map holds
StartWidth_AlwaysFallback(widths, key) == FallbackWidth

\* columnWidths[key] || 150
StartWidth(widths, key) ==
    IF key \in DOMAIN widths /\ widths[key] # 0 THEN widths[key] ELSE FallbackWidth

\* onMouseMove without Math.max(50, ..)
NewWidth_NoFloor(startWidth, startX, x) == startWidth + (x - startX)

\* onMouseMove's new width for pointer position x
NewWidth(startWidth, startX, x) == Max(MinWidth, startWidth + (x - startX))

\* setColumnWidths({ [resizingColumn]: newWidth }), the spread of prev forgotten
WithWidth_DropsOthers(prev, key, w) == [k \in {key} |-> w]

\* setColumnWidths(prev => ({ ...prev, [resizingColumn]: newWidth }))
WithWidth(prev, key, w) ==
    [k \in (DOMAIN prev) \cup {key} |-> IF k = key THEN w ELSE prev[k]]

\* the drag effect without its cleanup function
DragEffectListeners_NoCleanup(ls, t, col) ==
    ls \cup (IF Truthy(col) THEN {[table |-> t, col |-> col]} ELSE {})

\* the drag effect of instance t after resizingColumn became col: the cleanup
\* of the previous run removes t's listeners, the new run adds them when col
\* is truthy
DragEffectListeners(ls, t, col) ==
    {l \in ls : l.table # t} \cup (IF Truthy(col) THEN {[table |-> t, col |-> col]} ELSE {})

\* an unmount that skips the cleanup function of the drag effect
DragEffectCleanup_Skipped(ls, t) == ls

\* the cleanup function the drag effect returns, run when the instance unmounts
DragEffectCleanup(ls, t) == {l \in ls : l.table # t}

DragEffectCursor(col) == IF Truthy(col) THEN "col-resize" ELSE "default"

\* ------------------------------------------------- TableUI_Demo: CSV parser

\* String.prototype.split at the separator positions seps: the pieces between
\* them, empty pieces included
SplitAt(s, seps) ==
    LET IsSep(i) == i \in seps
        at == SelectSeq([i \in 1..Len(s) |-> i], IsSep)
    IN  [k \in 1..(Len(at) + 1) |->
            SubSeq(s, IF k = 1 THEN 1 ELSE at[k - 1] + 1,
                      IF k > Len(at) THEN Len(s) ELSE at[k] - 1)]

\* text.split('\n')
SplitLines(text) == SplitAt(text, {i \in 1..Len(text) : text[i] = LF})

\* rows[0].split(',')
SplitCommas(line) == SplitAt(line, {i \in 1..Len(line) : line[i] = Comma})

\* the data line split at every comma
SplitQuoteAware_EveryComma(line) == SplitAt(line, {i \in 1..Len(line) : line[i] = Comma})

\* row.split(/,(?=(?:(?:[^"]*"){2})*[^"]*$)/): a comma separates when an even
\* number of double quotes follows it in the line
SplitQuoteAware(line) ==
    SplitAt(line, {i \in 1..Len(line) :
                      /\ line[i] = Comma
                      /\ Cardinality({j \in (i + 1)..Len(line) : line[j] = Quote}) % 2 = 0})

\* String.prototype.trim
Trim(s) == TrimLeft(TrimRight(s))

\* text.split('\n').filter(row => row.trim() !== '')
NonEmptyRows(text) ==
    LET NotBlank(row) == Trim(row) # << >>
    IN  SelectSeq(SplitLines(text), NotBlank)

\* rows[0].split(',').map(h => h.trim())
Headers(rows) == LET hs == SplitCommas(rows[1]) IN [i \in 1..Len(hs) |-> Trim(hs[i])]

\* rows.slice(1) without the upper limit
DataRows_Unbounded(rows) == SubSeq(rows, 2, Len(rows))

\* rows.slice(1, 501)
DataRows(rows) == SubSeq(rows, 2, IF Len(rows) < SliceEnd THEN Len(rows) ELSE SliceEnd)

\* values[index]?.trim(), then the surrounding quotes sliced off when the
\* value is non-empty and starts and ends with a double quote
FieldValue(values, index) ==
    IF index > Len(values) THEN Undefined
    ELSE LET value == Trim(values[index])
         IN  IF value # << >> /\ value[1] = Quote /\ value[Len(value)] = Quote
             THEN Str(SubSeq(value, 2, Len(value) - 1))
             ELSE Str(value)

\* obj[header] = value: an existing property keeps its place
SetProperty(obj, key, value) ==
    IF \E i \in 1..Len(obj) : obj[i].key = key
    THEN LET i == CHOOSE i \in 1..Len(obj) : obj[i].key = key
         IN  [obj EXCEPT ![i] = Prop(key, value)]
    ELSE Append(obj, Prop(key, value))

\* the row mapping leaving out the headers that have no field in the line
ParseRow_SkipsMissing(headers, row) ==
    LET values == SplitQuoteAware(row)
        RECURSIVE Upto(_)
        Upto(n) ==
            IF n = 0 THEN << >>
            ELSE IF n > Len(values) THEN Upto(n - 1)
            ELSE SetProperty(Upto(n - 1), headers[n], FieldValue(values, n))
    IN  Upto(Len(headers))

\* the row mapping: headers.forEach((header, index) => obj[header] = value)
ParseRow(headers, row) ==
    LET values == SplitQuoteAware(row)
        RECURSIVE Upto(_)
        Upto(n) ==
            IF n = 0 THEN << >>
            ELSE SetProperty(Upto(n - 1), headers[n], FieldValue(values, n))
    IN  Upto(Len(headers))

\* the try block throwing an error for a text without a non-empty line
TryBlock_ThrowsOnEmpty(text) ==
    LET rows == NonEmptyRows(text)
    IN  IF Len(rows) = 0 THEN [thrown |-> "EmptyInputError", data |-> << >>]
        ELSE [thrown |-> NULL,
              data |-> [i \in 1..Len(DataRows(rows)) |->
                            ParseRow(Headers(rows), DataRows(rows)[i])]]

\* the try block from response.text() on: what it hands to setData, and the
\* message of what it throws (nothing in it throws)
TryBlock(text) ==
    LET rows == NonEmptyRows(text)
    IN  IF Len(rows) = 0 THEN [thrown |-> NULL, data |-> << >>]
        ELSE [thrown |-> NULL,
              data |-> [i \in 1..Len(DataRows(rows)) |->
                            ParseRow(Headers(rows), DataRows(rows)[i])]]

\* the forEach that copies an engine order into an OrderData
ToOrderData(order) ==
    [orderId |-> order.orderId, quantity |-> order.qty, sum |-> order.sum,
     time |-> order.time, clientId |-> order.clientId]

Collected(book) == [j \in 1..Len(book) |-> ToOrderData(book[j])]

\* the loop body without its own try/catch: a failed query rejects the call
AfterInstrument_Aborts(call, fail) ==
    LET i == call.idx
        last == i = call.count
    IN  IF fail # "none"
        THEN [call EXCEPT !.pc = "done", !.outcome = "network", !.fails = Append(@, fail),
                          !.spotOrders = << >>, !.perpOrders = << >>]
        ELSE [call EXCEPT !.spotOrders = @ \o Collected(SpotBook(i)),
                          !.perpOrders = @ \o Collected(PerpBook(i)),
                          !.fails = Append(@, fail),
                          !.idx = IF last THEN i ELSE i + 1,
                          !.pc = IF last THEN "done" ELSE "loop",
                          !.outcome = IF last THEN "resolved" ELSE "none"]

\* one iteration of the for loop for instrument call.idx, in which the query
\* named by fail throws (none when every query answers): what was pushed
\* before the throw stays, the catch logs, the loop goes on; after the last
\* instrument the call resolves with the two arrays
AfterInstrument(call, fail) ==
    LET i == call.idx
        last == i = call.count
        spot == IF fail \in {"spotInfo", "spot"} THEN << >> ELSE Collected(SpotBook(i))
        perp == IF fail = "none" THEN Collected(PerpBook(i)) ELSE << >>
    IN  [call EXCEPT !.spotOrders = @ \o spot,
                     !.perpOrders = @ \o perp,
                     !.fails = Append(@, fail),
                     !.idx = IF last THEN i ELSE i + 1,
                     !.pc = IF last THEN "done" ELSE "loop",
                     !.outcome = IF last THEN "resolved" ELSE "none"]

\* ------------------------------------------------------------- the state

\* no DeriverseService constructed yet, no call made
ServiceIdle ==
    /\ isServiceAvailable = TRUE
    /\ engine = [s \in Instances |-> NULL]
    /\ calls = [c \in CallIds |-> IdleCall]


Init ==
    /\ mounted = {}
    /\ data = [t \in Tables |-> << >>]
    /\ columns = [t \in Tables |-> NoColumns]
    /\ sortConfig = [t \in Tables |-> NoSort]
    /\ columnWidths = [t \in Tables |-> EmptyMap]
    /\ resizingColumn = [t \in Tables |-> NULL]
    /\ resizeStartX = [t \in Tables |-> 0]
    /\ resizeStartWidth = [t \in Tables |-> 0]
    /\ sortedData = [t \in Tables |-> << >>]
    /\ listeners = {}
    /\ cursor = ""
    /\ lastX = [t \in Tables |-> {}]
    /\ replaced = [t \in Tables |-> FALSE]
    /\ prevSort = [t \in Tables |-> NoSort]
    /\ drags = 0
    /\ noted = [t \in Tables |-> "none"]
    /\ sortPhase = "idle"
    /\ sortInput = << >>
    /\ sortDirective = NoSort
    /\ sortOutput = << >>
    /\ csvText = << >>
    /\ fetchPhase = "idle"
    /\ demoData = << >>
    /\ loading = TRUE
    /\ error = NULL
    /\ colPhase = "idle"
    /\ colData = << >>
    /\ colProp = NoColumns
    /\ colColumns = << >>
    /\ ServiceIdle

\* first render of <TableUI data={d} columns={c}/> and its effects
Mount(t, d, c) ==
    /\ t \notin mounted
    /\ mounted' = mounted \cup {t}
    /\ \E r \in SortedData(d, NoSort) :
          /\ data' = [data EXCEPT ![t] = r.data]
          /\ sortedData' = [sortedData EXCEPT ![t] = r.sortedData]
    /\ columns' = [columns EXCEPT ![t] = c]
    /\ sortConfig' = [sortConfig EXCEPT ![t] = NoSort]
    /\ columnWidths' = [columnWidths EXCEPT ![t] = InitializeWidths(TableColumns(d, c), EmptyMap)]
    /\ resizingColumn' = [resizingColumn EXCEPT ![t] = NULL]
    /\ resizeStartX' = [resizeStartX EXCEPT ![t] = 0]
    /\ resizeStartWidth' = [resizeStartWidth EXCEPT ![t] = 0]
    /\ lastX' = [lastX EXCEPT ![t] = {}]
    /\ replaced' = [replaced EXCEPT ![t] = FALSE]
    /\ prevSort' = [prevSort EXCEPT ![t] = NoSort]
    /\ noted' = [noted EXCEPT ![t] = "none"]
    /\ UNCHANGED <<listeners, cursor, drags>>
    /\ UNCHANGED <<sortVars, demoVars, colVars, svcVars>>

\* the parent renders the instance again with new props
SetProps(t, d, c) ==
    /\ t \in mounted
    /\ \E r \in SortedData(d, sortConfig[t]) :
          /\ data' = [data EXCEPT ![t] = r.data]
          /\ sortedData' = [sortedData EXCEPT ![t] = r.sortedData]
    /\ columns' = [columns EXCEPT ![t] = c]
    /\ columnWidths' = [columnWidths EXCEPT
                            ![t] = InitializeWidths(TableColumns(d, c), columnWidths[t])]
    /\ noted' = [noted EXCEPT ![t] =
                    IF /\ d # data[t]
                       /\ ColumnKeys(d, c) = ColumnKeys(data[t], columns[t])
                       /\ \E k \in DOMAIN columnWidths[t] : columnWidths[t][k] # defaultWidth
                    THEN "resized-then-rows" ELSE @]
    /\ UNCHANGED <<mounted, sortConfig, resizingColumn, resizeStartX, resizeStartWidth,
                   listeners, cursor, lastX, replaced, prevSort, drags>>
    /\ UNCHANGED <<sortVars, demoVars, colVars, svcVars>>

\* the instance is removed: every effect's cleanup runs, its state is gone
Unmount(t) ==
    /\ t \in mounted
    /\ mounted' = mounted \ {t}
    /\ listeners' = DragEffectCleanup(listeners, t)
    /\ cursor' = "default"
    /\ noted' = [noted EXCEPT ![t] =
                    IF Truthy(resizingColumn[t]) THEN "unmounted-in-drag" ELSE "none"]
    /\ data' = [data EXCEPT ![t] = << >>]
    /\ columns' = [columns EXCEPT ![t] = NoColumns]
    /\ sortConfig' = [sortConfig EXCEPT ![t] = NoSort]
    /\ columnWidths' = [columnWidths EXCEPT ![t] = EmptyMap]
    /\ resizingColumn' = [resizingColumn EXCEPT ![t] = NULL]
    /\ resizeStartX' = [resizeStartX EXCEPT ![t] = 0]
    /\ resizeStartWidth' = [resizeStartWidth EXCEPT ![t] = 0]
    /\ sortedData' = [sortedData EXCEPT ![t] = << >>]
    /\ lastX' = [lastX EXCEPT ![t] = {}]
    /\ replaced' = [replaced EXCEPT ![t] = FALSE]
    /\ prevSort' = [prevSort EXCEPT ![t] = NoSort]
    /\ UNCHANGED drags
    /\ UNCHANGED <<sortVars, demoVars, colVars, svcVars>>

\* handleSort putting every column back to the default width
handleSort_ResetsWidths(t, key) ==
    /\ t \in mounted
    /\ key \in ColumnKeys(data[t], columns[t])
    /\ sortConfig' = [sortConfig EXCEPT ![t] = NextSortConfig(sortConfig[t], key)]
    /\ \E r \in SortedData(data[t], sortConfig'[t]) :
          /\ data' = [data EXCEPT ![t] = r.data]
          /\ sortedData' = [sortedData EXCEPT ![t] = r.sortedData]
    /\ prevSort' = [prevSort EXCEPT ![t] = sortConfig[t]]
    /\ columnWidths' = [columnWidths EXCEPT
                            ![t] = [k \in DOMAIN columnWidths[t] |-> defaultWidth]]
    /\ UNCHANGED noted
    /\ UNCHANGED <<mounted, columns, resizingColumn, resizeStartX,
                   resizeStartWidth, listeners, cursor, lastX, replaced, drags>>
    /\ UNCHANGED <<sortVars, demoVars, colVars, svcVars>>

\* click on the header of column key
handleSort(t, key) ==
    /\ t \in mounted
    /\ key \in ColumnKeys(data[t], columns[t])
    /\ sortConfig' = [sortConfig EXCEPT ![t] = NextSortConfig(sortConfig[t], key)]
    /\ \E r \in SortedData(data[t], sortConfig'[t]) :
          /\ data' = [data EXCEPT ![t] = r.data]
          /\ sortedData' = [sortedData EXCEPT ![t] = r.sortedData]
    /\ prevSort' = [prevSort EXCEPT ![t] = sortConfig[t]]
    /\ UNCHANGED noted
    /\ UNCHANGED <<mounted, columns, columnWidths, resizingColumn, resizeStartX,
                   resizeStartWidth, listeners, cursor, lastX, replaced, drags>>
    /\ UNCHANGED <<sortVars, demoVars, colVars, svcVars>>

\* startResizing that ignores a mousedown while a session is active
startResizing_Rejects(t, key, x) ==
    /\ t \in mounted
    /\ key \in ColumnKeys(data[t], columns[t])
    /\ drags < MaxDrags
    /\ drags' = drags + 1
    /\ IF Truthy(resizingColumn[t])
       THEN UNCHANGED <<resizingColumn, resizeStartX, resizeStartWidth, lastX, replaced,
                        listeners, cursor>>
       ELSE /\ resizingColumn' = [resizingColumn EXCEPT ![t] = key]
            /\ resizeStartX' = [resizeStartX EXCEPT ![t] = x]
            /\ resizeStartWidth' =
                  [resizeStartWidth EXCEPT ![t] = StartWidth(columnWidths[t], key)]
            /\ lastX' = [lastX EXCEPT ![t] = {}]
            /\ replaced' = [replaced EXCEPT ![t] = FALSE]
            /\ listeners' = DragEffectListeners(listeners, t, key)
            /\ cursor' = DragEffectCursor(key)
    /\ UNCHANGED <<mounted, data, columns, sortConfig, columnWidths, sortedData, prevSort,
                   noted>>
    /\ UNCHANGED <<sortVars, demoVars, colVars, svcVars>>

\* mousedown at clientX = x on the resize handle of column key
startResizing(t, key, x) ==
    /\ t \in mounted
    /\ key \in ColumnKeys(data[t], columns[t])
    /\ drags < MaxDrags
    /\ drags' = drags + 1
    /\ resizingColumn' = [resizingColumn EXCEPT ![t] = key]
    /\ resizeStartX' = [resizeStartX EXCEPT ![t] = x]
    /\ resizeStartWidth' = [resizeStartWidth EXCEPT ![t] = StartWidth(columnWidths[t], key)]
    /\ lastX' = [lastX EXCEPT ![t] = {}]
    /\ replaced' = [replaced EXCEPT ![t] = Truthy(resizingColumn[t])]
    /\ IF key # resizingColumn[t]
       THEN /\ listeners' = DragEffectListeners(listeners, t, key)
            /\ cursor' = DragEffectCursor(key)
       ELSE UNCHANGED <<listeners, cursor>>
    /\ UNCHANGED <<mounted, data, columns, sortConfig, columnWidths, sortedData, prevSort,
                   noted>>
    /\ UNCHANGED <<sortVars, demoVars, colVars, svcVars>>

\* onMouseMove adding the delta to the width the column has now
onMouseMove_Accumulates(l, prev, x) ==
    IF ~Truthy(l.col) THEN prev
    ELSE WithWidth(prev, l.col,
                   Max(MinWidth, StartWidth(prev, l.col) + (x - resizeStartX[l.table])))

\* listener l of an instance sees position x: the instance's width map after
\* the updater it queues is applied to prev
onMouseMove(l, prev, x) ==
    IF ~Truthy(l.col) THEN prev
    ELSE WithWidth(prev, l.col,
                   NewWidth(resizeStartWidth[l.table], resizeStartX[l.table], x))

\* the queued updaters of the listeners ls applied one after the other
RECURSIVE ApplyMoves(_, _, _)
ApplyMoves(ls, prev, x) ==
    IF ls = {} THEN prev
    ELSE LET l == CHOOSE m \in ls : TRUE
         IN  ApplyMoves(ls \ {l}, onMouseMove(l, prev, x), x)

\* a mousemove event on the document: every registered listener runs
DocMouseMove(x) ==
    LET ListenersOf(t) == {l \in listeners : l.table = t}
    IN  /\ columnWidths' = [t \in Tables |-> ApplyMoves(ListenersOf(t), columnWidths[t], x)]
        /\ lastX' = [t \in Tables |-> IF ListenersOf(t) # {} THEN {x} ELSE lastX[t]]
        /\ UNCHANGED noted
        /\ UNCHANGED <<mounted, data, columns, sortConfig, resizingColumn, resizeStartX,
                       resizeStartWidth, sortedData, listeners, cursor, replaced,
                       prevSort, drags>>
        /\ UNCHANGED <<sortVars, demoVars, colVars, svcVars>>

\* onMouseUp without setResizingColumn(null)
onMouseUp_KeepsColumn(t) == resizingColumn[t]

\* resizingColumn of instance t after a mouseup event on the document
onMouseUp(t) == IF \E l \in listeners : l.table = t THEN NULL ELSE resizingColumn[t]

\* a mouseup event on the document: every registered listener runs and removes
\* itself and its mousemove twin; the drag effect of an instance whose
\* resizingColumn changed then runs with nothing left to remove or add
DocMouseUp ==
    /\ resizingColumn' = [t \in Tables |-> onMouseUp(t)]
    /\ listeners' = {}
    /\ cursor' = IF listeners # {} THEN "default" ELSE cursor
    /\ UNCHANGED noted
    /\ UNCHANGED <<mounted, data, columns, sortConfig, columnWidths, resizeStartX,
                   resizeStartWidth, sortedData, lastX, replaced, prevSort, drags>>
    /\ UNCHANGED <<sortVars, demoVars, colVars, svcVars>>

\* the sort engine taken alone: sortedData computed for an array and a directive
ComputeSortedData(cfg) ==
    /\ sortPhase = "input"
    /\ sortPhase' = "sorted"
    /\ sortDirective' = cfg
    /\ \E r \in SortedData(sortInput, cfg) :
          /\ sortInput' = r.data
          /\ sortOutput' = r.sortedData
    /\ UNCHANGED <<tableVars, demoVars, colVars, svcVars>>

SortInit ==
    /\ mounted = {}
    /\ data = [t \in Tables |-> << >>]
    /\ columns = [t \in Tables |-> NoColumns]
    /\ sortConfig = [t \in Tables |-> NoSort]
    /\ columnWidths = [t \in Tables |-> EmptyMap]
    /\ resizingColumn = [t \in Tables |-> NULL]
    /\ resizeStartX = [t \in Tables |-> 0]
    /\ resizeStartWidth = [t \in Tables |-> 0]
    /\ sortedData = [t \in Tables |-> << >>]
    /\ listeners = {}
    /\ cursor = ""
    /\ lastX = [t \in Tables |-> {}]
    /\ replaced = [t \in Tables |-> FALSE]
    /\ prevSort = [t \in Tables |-> NoSort]
    /\ drags = 0
    /\ noted = [t \in Tables |-> "none"]
    /\ sortPhase = "input"
    /\ sortInput \in SortInputs
    /\ sortDirective = NoSort
    /\ sortOutput = << >>
    /\ csvText = << >>
    /\ fetchPhase = "idle"
    /\ demoData = << >>
    /\ loading = TRUE
    /\ error = NULL
    /\ colPhase = "idle"
    /\ colData = << >>
    /\ colProp = NoColumns
    /\ colColumns = << >>
    /\ ServiceIdle

SortNext == \E cfg \in Directives : ComputeSortedData(cfg)

SortSpec == SortInit /\ [][SortNext]_vars

\* the column model taken alone: tableColumns computed for the props
ComputeTableColumns ==
    /\ colPhase = "input"
    /\ colPhase' = "derived"
    /\ colColumns' = TableColumns(colData, colProp)
    /\ UNCHANGED <<colData, colProp>>
    /\ UNCHANGED <<tableVars, sortVars, demoVars, svcVars>>

ColumnInit ==
    /\ mounted = {}
    /\ data = [t \in Tables |-> << >>]
    /\ columns = [t \in Tables |-> NoColumns]
    /\ sortConfig = [t \in Tables |-> NoSort]
    /\ columnWidths = [t \in Tables |-> EmptyMap]
    /\ resizingColumn = [t \in Tables |-> NULL]
    /\ resizeStartX = [t \in Tables |-> 0]
    /\ resizeStartWidth = [t \in Tables |-> 0]
    /\ sortedData = [t \in Tables |-> << >>]
    /\ listeners = {}
    /\ cursor = ""
    /\ lastX = [t \in Tables |-> {}]
    /\ replaced = [t \in Tables |-> FALSE]
    /\ prevSort = [t \in Tables |-> NoSort]
    /\ drags = 0
    /\ noted = [t \in Tables |-> "none"]
    /\ sortPhase = "idle"
    /\ sortInput = << >>
    /\ sortDirective = NoSort
    /\ sortOutput = << >>
    /\ csvText = << >>
    /\ fetchPhase = "idle"
    /\ demoData = << >>
    /\ loading = TRUE
    /\ error = NULL
    /\ colPhase = "input"
    /\ colData \in ColumnInputs
    /\ colProp \in ColumnProps
    /\ colColumns = << >>
    /\ ServiceIdle

ColumnNext == ComputeTableColumns

ColumnSpec == ColumnInit /\ [][ColumnNext]_vars

\* TableUI_Demo mounts: its effect calls fetchData for the served file
DemoInit ==
    /\ mounted = {}
    /\ data = [t \in Tables |-> << >>]
    /\ columns = [t \in Tables |-> NoColumns]
    /\ sortConfig = [t \in Tables |-> NoSort]
    /\ columnWidths = [t \in Tables |-> EmptyMap]
    /\ resizingColumn = [t \in Tables |-> NULL]
    /\ resizeStartX = [t \in Tables |-> 0]
    /\ resizeStartWidth = [t \in Tables |-> 0]
    /\ sortedData = [t \in Tables |-> << >>]
    /\ listeners = {}
    /\ cursor = ""
    /\ lastX = [t \in Tables |-> {}]
    /\ replaced = [t \in Tables |-> FALSE]
    /\ prevSort = [t \in Tables |-> NoSort]
    /\ drags = 0
    /\ noted = [t \in Tables |-> "none"]
    /\ sortPhase = "idle"
    /\ sortInput = << >>
    /\ sortDirective = NoSort
    /\ sortOutput = << >>
    /\ csvText \in CsvTexts
    /\ fetchPhase = "fetching"
    /\ demoData = << >>
    /\ loading = TRUE
    /\ error = NULL
    /\ colPhase = "idle"
    /\ colData = << >>
    /\ colProp = NoColumns
    /\ colColumns = << >>
    /\ ServiceIdle

\* await fetch(..) settles: the promise rejects, or resolves with a response
\* that is ok or not; a failure goes through catch and finally
FetchSettles(outcome) ==
    /\ fetchPhase = "fetching"
    /\ IF outcome = "ok"
       THEN /\ fetchPhase' = "reading"
            /\ UNCHANGED <<error, loading>>
       ELSE /\ fetchPhase' = "failed"
            /\ error' = (IF outcome = "not ok" THEN "Failed to fetch data"
                         ELSE "message of the rejection")
            /\ loading' = FALSE
    /\ UNCHANGED <<csvText, demoData>>
    /\ UNCHANGED <<tableVars, sortVars, colVars, svcVars>>

\* await response.text() settles: on a rejection catch and finally run, on a
\* body the rest of the try block and finally run
TextSettles(outcome) ==
    /\ fetchPhase = "reading"
    /\ IF outcome = "ok"
       THEN LET r == TryBlock(csvText)
            IN  IF r.thrown = NULL
                THEN /\ fetchPhase' = "parsed"
                     /\ demoData' = r.data
                     /\ UNCHANGED error
                ELSE /\ fetchPhase' = "failed"
                     /\ error' = r.thrown
                     /\ UNCHANGED demoData
       ELSE /\ fetchPhase' = "failed"
            /\ error' = "message of the rejection"
            /\ UNCHANGED demoData
    /\ loading' = FALSE
    /\ UNCHANGED csvText
    /\ UNCHANGED <<tableVars, sortVars, colVars, svcVars>>

DemoNext ==
    \/ \E outcome \in {"ok", "not ok", "rejected"} : FetchSettles(outcome)
    \/ \E outcome \in {"ok", "rejected"} : TextSettles(outcome)

DemoSpec == DemoInit /\ [][DemoNext]_vars

\* one rendered table
Next ==
    \/ \E t \in {"t1"}, d \in DataSets, c \in ColumnProps : Mount(t, d, c)
    \/ \E t \in {"t1"}, d \in DataSets, c \in ColumnProps : SetProps(t, d, c)
    \/ \E t \in {"t1"} : Unmount(t)
    \/ \E t \in {"t1"}, key \in Keys : handleSort(t, key)
    \/ \E t \in {"t1"}, key \in Keys, x \in DownXs : startResizing(t, key, x)
    \/ \E x \in MoveXs : DocMouseMove(x)
    \/ DocMouseUp

Spec == Init /\ [][Next]_vars

\* a page that renders two tables, and the pointer events on it
PageNext ==
    \/ \E t \in Tables, d \in DataSets : Mount(t, d, NoColumns)
    \/ \E t \in Tables : Unmount(t)
    \/ \E t \in Tables, key \in Keys, x \in DownXs : startResizing(t, key, x)
    \/ \E x \in MoveXs : DocMouseMove(x)
    \/ DocMouseUp

PageSpec == Init /\ [][PageNext]_vars

\* fetchTradesForAddress is called on instance s, up to its first await:
\* rejected when the flag is false; else initializeEngine creates the engine
\* and waits for engine.initialize() when the instance has none; else the
\* call goes on to setSigner
FetchStart(c, s) ==
    /\ calls[c].pc = "idle"
    /\ IF ~isServiceAvailable
       THEN /\ calls' = [calls EXCEPT ![c] = [@ EXCEPT !.pc = "done", !.inst = s,
                                                       !.outcome = "unavailable"]]
            /\ UNCHANGED engine
       ELSE IF engine[s] = NULL
       THEN /\ engine' = [engine EXCEPT ![s] = "created"]
            /\ calls' = [calls EXCEPT ![c] = [@ EXCEPT !.pc = "init", !.inst = s]]
       ELSE /\ calls' = [calls EXCEPT ![c] = [@ EXCEPT !.pc = "client", !.inst = s]]
            /\ UNCHANGED engine
    /\ UNCHANGED isServiceAvailable
    /\ UNCHANGED <<tableVars, sortVars, demoVars, colVars>>

\* engine.initialize() of call c settles: resolved true, resolved false, or
\* rejected; the rest of initializeEngine runs
InitializeSettles(c, r) ==
    /\ calls[c].pc = "init"
    /\ IF r = "true"
       THEN /\ isServiceAvailable' = TRUE
            /\ engine' = [engine EXCEPT ![calls[c].inst] = "initialized"]
            /\ calls' = [calls EXCEPT ![c] = [@ EXCEPT !.pc = "client"]]
       ELSE /\ isServiceAvailable' = FALSE
            /\ calls' = [calls EXCEPT ![c] = [@ EXCEPT !.pc = "done", !.outcome = "init"]]
            /\ UNCHANGED engine
    /\ UNCHANGED <<tableVars, sortVars, demoVars, colVars>>

\* setSigner and getClientData of call c settle, and the engine lists n
\* instruments
ClientSettles(c, r, n) ==
    /\ calls[c].pc = "client"
    /\ r # "ok" => n = 0
    /\ calls' = [calls EXCEPT ![c] =
                    IF r = "throws" THEN [@ EXCEPT !.pc = "done", !.outcome = "network"]
                    ELSE IF r = "clientNotFound" \/ n = 0
                    THEN [@ EXCEPT !.pc = "done", !.outcome = "resolved"]
                    ELSE [@ EXCEPT !.pc = "loop", !.count = n, !.idx = 1]]
    /\ UNCHANGED <<isServiceAvailable, engine>>
    /\ UNCHANGED <<tableVars, sortVars, demoVars, colVars>>

\* one iteration of the loop of call c; a query for orders is only made when
\* the info query reported some
InstrumentStep(c, fail) ==
    /\ calls[c].pc = "loop"
    /\ fail = "spot" => SpotBook(calls[c].idx) # << >>
    /\ fail = "perp" => PerpBook(calls[c].idx) # << >>
    /\ calls' = [calls EXCEPT ![c] = AfterInstrument(calls[c], fail)]
    /\ UNCHANGED <<isServiceAvailable, engine>>
    /\ UNCHANGED <<tableVars, sortVars, demoVars, colVars>>

\* calls on several instances, their awaits interleaved
ServiceNext ==
    \/ \E c \in CallIds, s \in Instances : FetchStart(c, s)
    \/ \E c \in CallIds, r \in InitializeOutcomes : InitializeSettles(c, r)
    \/ \E c \in CallIds, r \in ClientOutcomes, n \in {0, 1} : ClientSettles(c, r, n)
    \/ \E c \in CallIds, fail \in {"none", "perp"} : InstrumentStep(c, fail)

ServiceSpec == Init /\ [][ServiceNext]_vars

\* one call, every way its queries can fail
FetchNext ==
    \/ \E s \in {"s1"} : FetchStart(1, s)
    \/ \E r \in InitializeOutcomes : InitializeSettles(1, r)
    \/ \E r \in ClientOutcomes, n \in 0..MaxInstruments : ClientSettles(1, r, n)
    \/ \E fail \in Failures : InstrumentStep(1, fail)

FetchSpec == Init /\ [][FetchNext]_vars

TypeOK ==
    /\ mounted \subseteq Tables
    /\ \A t \in Tables : resizingColumn[t] \in Keys \cup {NULL}
    /\ \A l \in listeners : l.table \in mounted /\ l.col = resizingColumn[l.table]
    /\ \A t \in Tables : Truthy(resizingColumn[t]) <=> (\E l \in listeners : l.table = t)
    /\ drags \in 0..MaxDrags

\* ------------------------------------------------------------ properties

SessionActive(t) == Truthy(resizingColumn[t])
MoveStep == \E x \in MoveXs : DocMouseMove(x)

\* C1: every width stored in a width map is at least 50, and while a column is
\* being dragged a pointer position at least the baseline to the left of the
\* origin leaves that column exactly 50 wide.
C1_WidthFloor ==
    \A t \in Tables :
        /\ \A k \in DOMAIN columnWidths[t] : columnWidths[t][k] >= 50
        /\ \A x \in lastX[t] :
              (SessionActive(t) /\ x <= resizeStartX[t] - resizeStartWidth[t])
                  => columnWidths[t][resizingColumn[t]] = 50

C1_Witness ==
    \E t \in mounted : \E x \in lastX[t] :
        /\ SessionActive(t)
        /\ resizeStartWidth[t] + (x - resizeStartX[t]) < 50
        /\ columnWidths[t][resizingColumn[t]] = 50

\* C2: during a drag session the dragged column's width is the clamped width
\* for the last pointer position seen, computed from the baseline and origin
\* taken at startResizing: max(50, baseline + (x_last - origin)).
C2_WidthFromLastPosition ==
    \A t \in Tables : \A x \in lastX[t] :
        SessionActive(t) =>
            LET target == resizeStartWidth[t] + (x - resizeStartX[t])
            IN  columnWidths[t][resizingColumn[t]] = IF target < 50 THEN 50 ELSE target

C2_Witness ==
    \E t \in mounted : \E x \in lastX[t] :
        /\ SessionActive(t)
        /\ x # resizeStartX[t]
        /\ resizeStartWidth[t] # defaultWidth
        /\ columnWidths[t][resizingColumn[t]] = resizeStartWidth[t] + (x - resizeStartX[t])

\* C3: a pointer move changes no width other than that of the column being
\* dragged: every other entry of every width map stays, and no other key is added.
C3_OnlyDraggedColumnChanges ==
    [][MoveStep =>
          \A t \in Tables :
              /\ DOMAIN columnWidths'[t] \subseteq (DOMAIN columnWidths[t]) \cup {resizingColumn[t]}
              /\ \A k \in DOMAIN columnWidths[t] :
                    k # resizingColumn[t] =>
                        (k \in DOMAIN columnWidths'[t] /\ columnWidths'[t][k] = columnWidths[t][k])]_vars

C3_Witness ==
    \E t \in mounted :
        /\ SessionActive(t)
        /\ lastX[t] # {}
        /\ columnWidths[t][resizingColumn[t]] # resizeStartWidth[t]
        /\ \E k \in DOMAIN columnWidths[t] : k # resizingColumn[t]

\* C4 as claimed: startResizing while a session is active leaves the session's
\* column key, origin and baseline as they were.
C4_SecondBeginDragRejected ==
    [][\A t \in Tables, key \in Keys, x \in DownXs :
          (SessionActive(t) /\ startResizing(t, key, x)) =>
              /\ resizingColumn'[t] = resizingColumn[t]
              /\ resizeStartX'[t] = resizeStartX[t]
              /\ resizeStartWidth'[t] = resizeStartWidth[t]]_vars

\* C4 amended: startResizing while a session is active replaces the session:
\* resizingColumn becomes the new key, the origin the new pointer position, the
\* baseline the width stored for the new key (150 when none is stored), and
\* no width changes.
C4_SecondBeginDragReplaces ==
    [][\A t \in Tables, key \in Keys, x \in DownXs :
          (SessionActive(t) /\ startResizing(t, key, x)) =>
              /\ resizingColumn'[t] = key
              /\ resizeStartX'[t] = x
              /\ resizeStartWidth'[t] =
                    (IF key \in DOMAIN columnWidths[t] THEN columnWidths[t][key] ELSE 150)
              /\ columnWidths' = columnWidths]_vars

C4_Witness ==
    \E t \in mounted :
        /\ replaced[t]
        /\ SessionActive(t)
        /\ lastX[t] = {}
        /\ resizeStartWidth[t] # defaultWidth

\* C5: at no time do two table instances hold a drag session (a non-null
\* resizingColumn) at once.
C5_OneSessionProcessWide ==
    Cardinality({t \in Tables : resizingColumn[t] # NULL}) <= 1

\* C6: a pointer move while no drag session is active changes nothing: not the
\* width maps, not the sort directives, not the (absent) sessions.
C6_MoveWithoutSessionIsNoOp ==
    [][(MoveStep /\ \A t \in Tables : ~SessionActive(t)) =>
          UNCHANGED <<columnWidths, sortConfig, sortedData, resizingColumn,
                      resizeStartX, resizeStartWidth, listeners, cursor>>]_vars

C6_Witness ==
    \E t \in mounted :
        /\ ~SessionActive(t)
        /\ listeners = {}
        /\ lastX[t] # {}
        /\ \E k \in DOMAIN columnWidths[t] : columnWidths[t][k] # defaultWidth

\* C7: a pointer-up leaves no session active and no listener registered; with
\* no session active it changes nothing; and afterwards no pointer move changes
\* a width while no session is active.
C7_EndDragClosesAndIsIdempotent ==
    [][/\ DocMouseUp =>
            /\ \A t \in Tables : ~SessionActive(t)'
            /\ listeners' = {}
            /\ (\A t \in Tables : ~SessionActive(t)) => UNCHANGED vars
       /\ (MoveStep /\ \A t \in Tables : ~SessionActive(t)) => UNCHANGED columnWidths]_vars

C7_Witness ==
    \E t \in mounted :
        /\ resizingColumn[t] = NULL
        /\ lastX[t] # {}
        /\ listeners = {}
        /\ cursor = "default"

\* C8: activations on one column key cycle the directive
\* none -> (k, asc) -> (k, desc) -> none, and a table is first rendered with
\* the directive none.
C8_SortCycle ==
    [][/\ \A t \in Tables : (t \notin mounted /\ t \in mounted') => sortConfig'[t] = NoSort
       /\ \A t \in Tables, k \in Keys :
             (handleSort(t, k) /\ sortConfig[t].key \in {NULL, k}) =>
                 /\ sortConfig[t] = NoSort =>
                        sortConfig'[t] = [key |-> k, direction |-> "asc"]
                 /\ sortConfig[t] = [key |-> k, direction |-> "asc"] =>
                        sortConfig'[t] = [key |-> k, direction |-> "desc"]
                 /\ sortConfig[t] = [key |-> k, direction |-> "desc"] =>
                        sortConfig'[t] = NoSort
                 /\ sortConfig[t] \in {NoSort, [key |-> k, direction |-> "asc"],
                                      [key |-> k, direction |-> "desc"]}]_vars

C8_Witness ==
    \E t \in mounted :
        /\ prevSort[t].key # NULL
        /\ prevSort[t].direction = "desc"
        /\ sortConfig[t] = NoSort

\* C9: an activation on a column other than the directive's sets the directive
\* to (that column, asc); each table holds one directive or none.
C9_OtherColumnResetsToAscending ==
    [][/\ \A t \in Tables :
             \/ sortConfig[t] = NoSort
             \/ sortConfig[t] \in [key : Keys, direction : {"asc", "desc"}]
       /\ \A t \in Tables, k \in Keys :
             (handleSort(t, k) /\ sortConfig[t].key \notin {NULL, k}) =>
                 sortConfig'[t] = [key |-> k, direction |-> "asc"]]_vars

C9_Witness ==
    \E t \in mounted :
        /\ prevSort[t].direction = "desc"
        /\ sortConfig[t].key \notin {NULL, prevSort[t].key}
        /\ sortConfig[t].direction = "asc"

\* C10: while the directive is none the sorted view is the input row
\* sequence, row for row.
C10_NoDirectiveKeepsOrder ==
    \A t \in Tables : sortConfig[t] = NoSort => sortedData[t] = data[t]

C10_Witness ==
    \E t \in mounted :
        /\ sortConfig[t] = NoSort
        /\ prevSort[t] # NoSort
        /\ ArraySort(data[t], prevSort[t]) # data[t]
        /\ sortedData[t] = data[t]

\* ---- sort engine -------------------------------------------------------

KeyOf(r) == Get(r, "k")

IdOf(r) == Get(r, "id").num

\* where the row that was at position i of the input stands in the output
PosOf(out, i) == CHOOSE j \in 1..Len(out) : IdOf(out[j]) = i

Sorted == sortPhase = "sorted" /\ sortDirective # NoSort

C12_PermutationInNaturalOrder ==
    LET RECURSIVE DecimalDigits(_)
        DecimalDigits(m) ==
            IF m < 10 THEN <<48 + m>> ELSE Append(DecimalDigits(m \div 10), 48 + (m % 10))
        TextOf(v) == IF v.type = "number" THEN DecimalDigits(v.num) ELSE v.str
        NaturalLeq(a, b) ==
            IF a.type = "number" /\ b.type = "number" THEN a.num <= b.num
            ELSE ~StrLess(TextOf(b), TextOf(a))
        n == Len(sortInput)
        IsPermutation ==
            /\ Len(sortOutput) = n
            /\ \E f \in [1..n -> 1..n] :
                  /\ \A i, j \in 1..n : f[i] = f[j] => i = j
                  /\ \A i \in 1..n : sortOutput[i] = sortInput[f[i]]
    IN  Sorted =>
            /\ IsPermutation
            /\ \A i \in 1..(Len(sortOutput) - 1) :
                  LET a == KeyOf(sortOutput[i])
                      b == KeyOf(sortOutput[i + 1])
                  IN  (a # Undefined /\ b # Undefined) =>
                          IF sortDirective.direction = "asc" THEN NaturalLeq(a, b)
                          ELSE NaturalLeq(b, a)

\* C13: with an active directive every row whose value in the sorted column
\* is absent stands after every row whose value is present, in ascending and
\* in descending direction alike.
C13_AbsentValuesLast ==
    Sorted =>
        \A i, j \in 1..Len(sortOutput) :
            (KeyOf(sortOutput[i]) = Undefined /\ KeyOf(sortOutput[j]) # Undefined) => j < i

\* C14: computing the sorted view leaves the input row sequence as it was:
\* the same rows in the same order, for every directive.
C14_InputNotMutated ==
    [][(sortPhase = "input" /\ sortPhase' = "sorted") => sortInput' = sortInput]_vars

C14_Witness ==
    /\ Sorted
    /\ Len(sortInput) = MaxRows
    /\ sortOutput # sortInput
    /\ \A i \in 1..Len(sortInput) : IdOf(sortInput[i]) = i

\* ---- widths, sort and listeners of one table ----------------------------

\* C15: the width map is filled once, when the column set is non-empty while
\* the map is empty, with the default width 200 for every column; once it is
\* filled, new props (new rows with the same derived column keys among them)
\* leave every width as it is, resized widths included.
C15_WidthsInitializedOnce ==
    [][\A t \in Tables :
          /\ (t \in mounted' /\ DOMAIN columnWidths[t] = {} /\ DOMAIN columnWidths'[t] # {}) =>
                columnWidths'[t] = [k \in ColumnKeys(data'[t], columns'[t]) |-> defaultWidth]
          /\ (/\ t \in mounted /\ t \in mounted'
              /\ data'[t] # data[t] \/ columns'[t] # columns[t]
              /\ DOMAIN columnWidths[t] # {}) =>
                columnWidths'[t] = columnWidths[t]]_vars

C15_Witness ==
    \E t \in mounted :
        /\ noted[t] = "resized-then-rows"
        /\ \E k \in DOMAIN columnWidths[t] : columnWidths[t][k] # defaultWidth
        /\ \E k \in DOMAIN columnWidths[t] : columnWidths[t][k] = defaultWidth
        /\ data[t] # << >>

\* C16: sort and resize do not touch each other: a step that changes the
\* directive of a mounted table (a header click) makes it a function of the
\* directive and the clicked key alone and leaves widths, drag session and
\* listeners as they are; a mousedown on a resize handle, a pointer move and
\* a pointer-up leave the directive and the sorted view as they are.
C16_SortAndResizeIndependent ==
    [][/\ \A t \in Tables :
             (t \in mounted /\ t \in mounted' /\ sortConfig'[t] # sortConfig[t]) =>
                 /\ \E key \in Keys : sortConfig'[t] = NextSortConfig(sortConfig[t], key)
                 /\ UNCHANGED <<columnWidths, resizingColumn, resizeStartX,
                                resizeStartWidth, listeners, cursor>>
       /\ (drags' # drags \/ MoveStep \/ DocMouseUp) =>
                 UNCHANGED <<sortConfig, sortedData>>]_vars

C16_Witness ==
    \E t \in mounted :
        /\ SessionActive(t)
        /\ lastX[t] # {}
        /\ columnWidths[t][resizingColumn[t]] # defaultWidth
        /\ sortConfig[t].direction = "desc"
        /\ sortedData[t] # data[t]

\* C17: a document listener exists only for a mounted table with a drag
\* session open: none is left after a pointer-up, none after the table is
\* unmounted with a session open, none is registered without a session.
C17_ListenersOnlyWhileSessionOpen ==
    \A l \in listeners : l.table \in mounted /\ SessionActive(l.table)

C17_Witness ==
    \E t \in Tables \ mounted :
        /\ noted[t] = "unmounted-in-drag"
        /\ listeners = {}

\* ---- TableUI_Demo: CSV parser -------------------------------------------

HasKey(row, k) == \E m \in 1..Len(row) : row[m].key = k

\* C18: a text with a header line and N non-empty data lines is parsed into
\* min(N, 500) records: record i is built from the i-th non-empty line after
\* the header, every record has every header key, and the lines after the
\* 500th are dropped.
C18_RowsUpToLimitInOrder ==
    fetchPhase = "parsed" =>
        LET rows == NonEmptyRows(csvText)
            N == Len(rows) - 1
            limit == SliceEnd - 1
        IN  Len(rows) >= 1 =>
                /\ Len(demoData) = (IF N < limit THEN N ELSE limit)
                /\ \A i \in 1..Len(demoData) :
                      /\ demoData[i] = ParseRow(Headers(rows), rows[i + 1])
                      /\ \A j \in 1..Len(Headers(rows)) : HasKey(demoData[i], Headers(rows)[j])

C18_Witness ==
    /\ fetchPhase = "parsed"
    /\ csvText = LongText(SliceEnd + 99)
    /\ Len(NonEmptyRows(csvText)) = SliceEnd + 100
    /\ Len(demoData) = SliceEnd - 1
    /\ Get(demoData[1], <<105, 100>>) = Str(<<48, 48, 49>>)
    /\ Get(demoData[SliceEnd - 1], <<105, 100>>) = Str(<<53, 48, 48>>)

\* C19: when the body has no line that is non-empty after trimming, reading it
\* ends with an empty row sequence, no error, loading false, and a table
\* that gets an empty data set and so has no columns.
C19_EmptyInputIsNoData ==
    [][(TextSettles("ok") /\ NonEmptyRows(csvText) = << >>) =>
          /\ fetchPhase' = "parsed"
          /\ demoData' = << >>
          /\ error' = NULL
          /\ loading' = FALSE
          /\ TableColumns(demoData', NoColumns) = << >>]_vars

C19_Witness ==
    /\ fetchPhase = "parsed"
    /\ Len(csvText) > 1
    /\ NonEmptyRows(csvText) = << >>
    /\ demoData = << >>
    /\ error = NULL
    /\ ~loading

\* C20: a data line with fewer fields than the header has gives, without an
\* error, a record that has every header key: the keys up to the number of
\* fields hold the fields in position, the others hold the absent value; and
\* every data line, before and after it, gives its record.
C20_ShortLinesGiveAbsentValues ==
    fetchPhase = "parsed" =>
        LET rows == NonEmptyRows(csvText)
        IN  Len(rows) >= 1 =>
              LET hs == Headers(rows)
                  lines == DataRows(rows)
              IN  /\ error = NULL
                  /\ Len(demoData) = Len(lines)
                  /\ \A i \in 1..Len(lines) :
                        LET values == SplitQuoteAware(lines[i])
                        IN  Len(values) < Len(hs) =>
                              \A j \in 1..Len(hs) :
                                  /\ HasKey(demoData[i], hs[j])
                                  /\ j > Len(values) => Get(demoData[i], hs[j]) = Undefined
                                  /\ j <= Len(values) =>
                                        Get(demoData[i], hs[j]) = FieldValue(values, j)

C20_Witness ==
    /\ fetchPhase = "parsed"
    /\ error = NULL
    /\ Len(demoData) = 2
    /\ demoData[1] = <<Prop(<<107>>, Str(<<49>>)), Prop(<<119>>, Undefined)>>
    /\ demoData[2] = <<Prop(<<107>>, Str(<<49>>)), Prop(<<119>>, Str(<<50>>))>>

\* the number of double quotes of a line
QuoteCount(line) == Cardinality({j \in 1..Len(line) : line[j] = Quote})

\* C21: the header line (its double quotes all paired) is split only at
\* commas outside double quotes: the number of header names is the number of
\* quote-aware fields of the header line, and every record has a key for each
\* such field (the trimmed field, with or without its surrounding quotes).
C21_HeaderSplitQuoteAware ==
    fetchPhase = "parsed" =>
        LET rows == NonEmptyRows(csvText)
        IN  (Len(rows) >= 1 /\ QuoteCount(rows[1]) % 2 = 0) =>
              LET fields == SplitQuoteAware(rows[1])
              IN  /\ Len(Headers(rows)) = Len(fields)
                  /\ \A i \in 1..Len(demoData), j \in 1..Len(fields) :
                        \/ HasKey(demoData[i], Trim(fields[j]))
                        \/ HasKey(demoData[i], FieldValue(fields, j).str)

\* C27: in a data line whose double quotes are all paired, the fields are the
\* pieces between the commas that are outside every pair (an even number of
\* quotes stands before them); the record holds each field trimmed, and a
\* field that begins and ends with a double quote without that pair.
C27_DataLineSplitQuoteAware ==
    fetchPhase = "parsed" =>
        LET rows == NonEmptyRows(csvText)
        IN  Len(rows) >= 1 =>
              LET hs == Headers(rows)
                  lines == DataRows(rows)
              IN  \A i \in 1..Len(lines) :
                    LET line == lines[i]
                        outside == {c \in 1..Len(line) :
                                       /\ line[c] = Comma
                                       /\ QuoteCount(SubSeq(line, 1, c - 1)) % 2 = 0}
                        fields == SplitAt(line, outside)
                        Value(j) ==
                            LET f == Trim(fields[j])
                            IN  IF Len(f) >= 2 /\ f[1] = Quote /\ f[Len(f)] = Quote
                                THEN Str(SubSeq(f, 2, Len(f) - 1)) ELSE Str(f)
                    IN  QuoteCount(line) % 2 = 0 =>
                          \A j \in 1..Len(hs) :
                              j <= Len(fields) => Get(demoData[i], hs[j]) = Value(j)

C27_Witness ==
    /\ fetchPhase = "parsed"
    /\ Len(demoData) = 2
    /\ demoData[1] = <<Prop(<<107>>, Str(<<120, 44, 121>>)), Prop(<<119>>, Str(<<122>>))>>
    /\ demoData[2] = <<Prop(<<107>>, Str(<<55>>)), Prop(<<119>>, Str(<<113>>))>>

\* ---- column model -------------------------------------------------------

Derived == colPhase = "derived" /\ ~colProp.given /\ Len(colData) > 0

\* C22: with no explicit columns and a non-empty row sequence there is one
\* column per key of the first record, in that record's key order, and each
\* header is its key with a space put before every capital letter, every
\* underscore and hyphen turned into a space, and the first character of the
\* result uppercased.
C22_DerivedColumns ==
    LET Piece(c) == IF c \in 65..90 THEN <<32, c>>
                    ELSE IF c \in {95, 45} THEN <<32>> ELSE <<c>>
        RECURSIVE Spaced(_)
        Spaced(str) == IF str = << >> THEN << >> ELSE Piece(Head(str)) \o Spaced(Tail(str))
        Header(str) ==
            LET r == Spaced(str)
            IN  [i \in 1..Len(r) |-> IF i = 1 /\ r[i] \in 97..122 THEN r[i] - 32 ELSE r[i]]
    IN  Derived =>
            /\ Len(colColumns) = Len(colData[1])
            /\ \A i \in 1..Len(colColumns) :
                  /\ colColumns[i].key = colData[1][i].key
                  /\ colColumns[i].header = Header(KeyText[colData[1][i].key])

C22_Witness ==
    /\ Derived
    /\ Len(colColumns) = 2
    /\ colColumns[1] = [key |-> "trade_date", header |-> <<84, 114, 97, 100, 101, 32, 100, 97, 116, 101>>]
    /\ colColumns[2] = [key |-> "PnL", header |-> <<32, 80, 110, 32, 76>>]

OrderRows == <<RecordOf(<<"orderId", "clientId">>)>>

\* C23 as stated: rows [{orderId: 1, clientId: 2}] with no explicit columns
\* give the headers "Order id" and "Client id", in that order.
C23_ExampleHeadersLowercased ==
    (Derived /\ colData = OrderRows) =>
        /\ Len(colColumns) = 2
        /\ colColumns[1].header = <<79, 114, 100, 101, 114, 32, 105, 100>>
        /\ colColumns[2].header = <<67, 108, 105, 101, 110, 116, 32, 105, 100>>

\* C23: rows [{orderId: 1, clientId: 2}] with no explicit columns give the
\* columns orderId and clientId with the headers "Order Id" and "Client Id",
\* in that order: the capital keeps its case.
C23_ExampleHeaders ==
    (Derived /\ colData = OrderRows) =>
        /\ Len(colColumns) = 2
        /\ colColumns[1] = [key |-> "orderId", header |-> <<79, 114, 100, 101, 114, 32, 73, 100>>]
        /\ colColumns[2] = [key |-> "clientId", header |-> <<67, 108, 105, 101, 110, 116, 32, 73, 100>>]

C23_Witness ==
    /\ Derived
    /\ colData = OrderRows
    /\ colColumns[1].header[7] = 73
    /\ colColumns[2].header[8] = 73

\* ---- columns and widths of one table -----------------------------------

\* C24: with an empty row sequence and no explicit columns the column
\* sequence is empty, and a width map that is empty (a table just mounted
\* has an empty one) stays empty as long as the column set is empty.
C24_EmptyRowsEmptyColumnsAndWidths ==
    [][\A t \in Tables :
          /\ (t \in mounted' /\ Len(data'[t]) = 0 /\ ~columns'[t].given) =>
                TableColumns(data'[t], columns'[t]) = << >>
          /\ (/\ t \in mounted'
              /\ ColumnKeys(data'[t], columns'[t]) = {}
              /\ t \notin mounted \/ DOMAIN columnWidths[t] = {}) =>
                DOMAIN columnWidths'[t] = {}]_vars

C24_Witness ==
    \E t \in mounted :
        /\ data[t] = << >>
        /\ ~columns[t].given
        /\ sortedData[t] = << >>
        /\ DOMAIN columnWidths[t] = {}
        /\ drags > 0

\* C25: a pointer move of a drag session whose column key is not in the
\* current column set changes neither the sort directive, nor the rendered
\* row order, nor the width map.
C25_UnknownColumnIsNoOp ==
    [][\A t \in Tables :
          (/\ t \in mounted
           /\ SessionActive(t)
           /\ resizingColumn[t] \notin ColumnKeys(data[t], columns[t])
           /\ MoveStep) =>
              /\ sortConfig'[t] = sortConfig[t]
              /\ sortedData'[t] = sortedData[t]
              /\ columnWidths'[t] = columnWidths[t]]_vars

\* C26: startResizing(key, x) with no session active opens a session for key
\* whose origin is x and whose baseline is the width the map holds for key
\* at that moment; the map itself is not changed.
C26_BaselineIsStoredWidth ==
    [][\A t \in mounted, key \in Keys, x \in DownXs :
          (/\ drags' # drags
           /\ ~SessionActive(t)
           /\ key \in DOMAIN columnWidths[t]
           /\ startResizing(t, key, x)) =>
              /\ resizingColumn'[t] = key
              /\ resizeStartX'[t] = x
              /\ resizeStartWidth'[t] = columnWidths[t][key]
              /\ columnWidths' = columnWidths]_vars

C26_Witness ==
    \E t \in mounted :
        /\ SessionActive(t)
        /\ ~replaced[t]
        /\ lastX[t] = {}
        /\ drags = 2
        /\ resizeStartWidth[t] \notin {defaultWidth, FallbackWidth}
        /\ resizeStartWidth[t] = columnWidths[t][resizingColumn[t]]

\* C29: once the width map of a mounted table has been filled, every key of
\* the table's current column set has an entry in it.
C29_EveryColumnHasWidth ==
    \A t \in mounted :
        DOMAIN columnWidths[t] # {} =>
            ColumnKeys(data[t], columns[t]) \subseteq DOMAIN columnWidths[t]

\* ---- DeriverseService ---------------------------------------------------

HasOrder(orders, o) ==
    \E j \in 1..Len(orders) :
        orders[j] = [orderId |-> o.orderId, quantity |-> o.qty, sum |-> o.sum,
                     time |-> o.time, clientId |-> o.clientId]

\* C28: a query that throws for one instrument does not reject the call: the
\* loop goes on and the call resolves; the result holds the spot orders an
\* instrument had given before its perp query failed and every order of every
\* instrument whose queries all answered, in instrument order and once each.
C28_InstrumentErrorDoesNotAbort ==
    \A c \in CallIds :
        LET call == calls[c]
        IN  call.count > 0 =>
              /\ call.outcome \in {"none", "resolved"}
              /\ call.pc = "done" => (call.outcome = "resolved" /\ Len(call.fails) = call.count)
              /\ \A i \in 1..Len(call.fails) :
                    /\ call.fails[i] \in {"none", "perpInfo", "perp"} =>
                          \A j \in 1..Len(SpotBook(i)) : HasOrder(call.spotOrders, SpotBook(i)[j])
                    /\ call.fails[i] = "none" =>
                          \A j \in 1..Len(PerpBook(i)) : HasOrder(call.perpOrders, PerpBook(i)[j])
              /\ \A a, b \in 1..Len(call.spotOrders) :
                    a < b => call.spotOrders[a].orderId < call.spotOrders[b].orderId
              /\ \A a, b \in 1..Len(call.perpOrders) :
                    a < b => call.perpOrders[a].orderId < call.perpOrders[b].orderId

C28_Witness ==
    \E c \in CallIds :
        /\ calls[c].pc = "done"
        /\ calls[c].outcome = "resolved"
        /\ calls[c].fails = <<"perp", "spotInfo", "none">>
        /\ Len(calls[c].spotOrders) = 4
        /\ Len(calls[c].perpOrders) = 1

\* C30: once the availability flag is false no step sets it back to true.
C30_FlagStaysFalse ==
    [][~isServiceAvailable => ~isServiceAvailable']_vars

====
